---- MODULE Spec2Model ----
(***************************************************************************)
(* Verification model of the deep-research run loop                        *)
(* (open_deep_research/deep_researcher.py) and of the arbitration engine   *)
(* (common/judge.py, xai/judge_xai.py).                                    *)
(*                                                                         *)
(* Spec      : the LangGraph run  write_research_brief -> supervisor ->    *)
(*             should_continue_supervisor -> supervisor_tools -> ...       *)
(*             together with continue_research (resume).                    *)
(* SpecJudge : judge_candidates, one evaluator invocation per step.        *)
(***************************************************************************)
EXTENDS Integers, Sequences, FiniteSets, TLC

(***************************************************************************)
(* Bounds of the model.  The three max_* values are Configuration fields   *)
(* (configuration.py:38-44); the model runs them at small values.          *)
(***************************************************************************)
max_total_serp_calls == 3
max_tool_calls_per_turn == 2
max_researcher_iterations == 4
MaxProposal == 3
MaxResumeIterations == 5
MaxCandidates == 2
MaxExtracted == 1
MaxNotes == 3
NumModels == 2
MaxJudged == 2
MaxResults == 3
MaxMerged == 2

VARIABLES
    pc,                       \* node of the graph about to run, "__end__" after END
    research_brief,           \* TRUE once write_research_brief has produced the brief
    image_url,                \* TRUE iff an image hint is present
    tool_calls,               \* tool_calls of planner_messages[-1] (none on a ToolMessage)
    supervisor_iterations,
    notes,
    serp_calls_used,
    candidates,
    awaiting_disambiguation,
    selected_candidate,
    rejected_urls,
    image_probe_done,
    turn_log,                 \* history: what the supervisor_tools step that just ran did
    new_candidates,           \* history: new_candidates of the last supervisor_tools
    resumed,                  \* history: TRUE once continue_research was called
    complete_proposed,        \* history: the proposal just sanitised held research_complete
    selection                 \* history: selection_index of the resume that has just run

runvars == <<pc, research_brief, image_url, tool_calls, supervisor_iterations,
             notes, serp_calls_used, candidates, awaiting_disambiguation,
             selected_candidate, rejected_urls, image_probe_done,
             turn_log, new_candidates, resumed, complete_proposed, selection>>

\* judge_candidates (common/judge.py), one evaluator invocation per step
VARIABLES
    j_pc,                     \* "idle", "start", "committee", "aggregate", "done"
    cand_list,                \* _normalize_candidates(candidates)
    j_model,                  \* committee member whose block is being tallied
    j_run,                    \* self-consistency run of that member
    j_tag,                    \* "base" or "swap"
    run_cands,                \* the candidate order shown to the evaluator
    votes,                    \* dict original index -> number of votes
    confidences,              \* the appended confidences, as value -> multiplicity
    base_idx,                 \* bias report: mapped base winner of the current run
    swap_total,
    swap_flips,
    j_out,                    \* the dict judge_candidates returns
    picks,                    \* history: candidates the evaluators picked (original indices)
    reported                  \* history: [sum, n] of the confidences of all invocations

judgevars == <<j_pc, cand_list, j_model, j_run, j_tag, run_cands, votes, confidences,
               base_idx, swap_total, swap_flips, j_out, picks, reported>>

\* the candidate pipeline of one supervisor_tools turn, one stage per step
VARIABLES
    e_pc,                     \* "idle", "start", "structural", "summarised", "merged"
    results,                  \* the result items of the batch, in result order
    seen_order,               \* history: the candidates in the order the turn met them
    out_candidates            \* new_candidates so far

extractvars == <<e_pc, results, seen_order, out_candidates>>

\* the supervisor's sanitising of one proposal, taken alone
VARIABLES
    s_pc,                     \* "idle", "proposed", "sanitized"
    out_tool_calls            \* out.tool_calls, the planner's raw proposal

sanitizevars == <<s_pc, out_tool_calls>>

vars == <<runvars, judgevars, extractvars, sanitizevars>>

(***************************************************************************)
(* Small helpers                                                           *)
(***************************************************************************)
Min(a, b) == IF a <= b THEN a ELSE b

Max(a, b) == IF a >= b THEN a ELSE b

Take(s, n) == SubSeq(s, 1, Min(Max(n, 0), Len(s)))

Range(s) == {s[i] : i \in 1..Len(s)}

RECURSIVE SeqsUpTo(_, _)
SeqsUpTo(S, n) ==
    IF n = 0 THEN {<<>>}
    ELSE LET shorter == SeqsUpTo(S, n - 1)
         IN  shorter \cup {Append(s, x) : s \in {t \in shorter : Len(t) = n - 1}, x \in S}

(***************************************************************************)
(* Candidates.  A candidate is {name, url}; the empty dict / None is       *)
(* NoCandidate (falsy in the code's truth tests).                          *)
(***************************************************************************)
NoCandidate == [name |-> "", url |-> ""]

Cand(n, u) == [name |-> n, url |-> u]

Truthy(c) == c # NoCandidate

(***************************************************************************)
(* URLs and the items the oracles can return.                              *)
(***************************************************************************)
U1 == "http://site.org/a"

U2 == "http://x.com/b"

Urls == {U1, U2}

\* str.lower() on the strings of the model
Lower(s) == CASE s = "A" -> "a"
              [] s = "HTTP://SITE.ORG/A" -> U1
              [] OTHER -> s

\* items of organic_results: _candidate_from_item keeps those with link and title
SerpItems == {Cand("a", U1), Cand("b", U2)}

\* objects a language-model extraction or adjudication can return
LlmItems == {Cand("a", U1), Cand("c", "")}

\* _SOCIAL_HOSTS / profile keywords as they apply to the model's items; this is
\* the score before the source negates it for its ascending sort
_score(c) == (IF c.url = U2 THEN 3 ELSE 0) + (IF c.name = "profile" THEN 1 ELSE 0)

(***************************************************************************)
(* Action catalog: the tool names that occur in the code's sets            *)
(***************************************************************************)
ALLOWED_TOOLS ==
    {"google_search", "bing_search", "duckduckgo_search", "yahoo_search",
     "yandex_search", "baidu_search", "google_image_search", "bing_images_search",
     "google_lens_search", "google_reverse_image_search",
     "google_maps_search", "youtube_search", "yelp_search", "web_scraper"}

BLOCKED_UNTIL_SELECTION == {"google_news_search", "google_hotels_search"}

broad == {"google_search", "bing_search", "duckduckgo_search", "yahoo_search",
          "yandex_search", "baidu_search"}

serpish ==
    {"google_search", "bing_search", "duckduckgo_search", "yahoo_search",
     "yandex_search", "baidu_search", "google_image_search", "bing_images_search",
     "google_lens_search", "google_reverse_image_search", "google_maps_search",
     "google_hotels_search", "google_news_search", "youtube_search", "yelp_search"}

image_tool_names == {"google_reverse_image_search", "google_lens_search"}

Call(n, u) == [name |-> n, url |-> u]

\* what the planning oracle may put into PlannerTurnOutput.tool_calls
ProposalCalls ==
    {Call("think_tool", ""), Call("google_search", ""),
     Call("google_lens_search", ""), Call("google_news_search", ""),
     Call("research_complete", "")}
    \cup {Call("web_scraper", U1)}

Proposals == SeqsUpTo(ProposalCalls, MaxProposal)

(***************************************************************************)
(* supervisor: sanitising the proposal                                      *)
(***************************************************************************)
IsThink(tc) == tc.name = "think_tool"

NotThink(tc) == tc.name # "think_tool"

\* sorted(rest, key=lambda x: ((tname(x) in broad), tname(x) != "advanced_search_and_retrieve"))
\* Python sorts ascending and stably, False before True.
SortKey(tc) == (IF tc.name \in broad THEN 2 ELSE 0)
               + (IF tc.name # "advanced_search_and_retrieve" THEN 1 ELSE 0)

rest_sorted(rest) ==
    LET K0(tc) == SortKey(tc) = 0
        K1(tc) == SortKey(tc) = 1
        K2(tc) == SortKey(tc) = 2
        K3(tc) == SortKey(tc) = 3
    IN  SelectSeq(rest, K0) \o SelectSeq(rest, K1) \o SelectSeq(rest, K2) \o SelectSeq(rest, K3)

\* the std list the supervisor node stores in its AIMessage
Sanitize(out, selected) ==
    LET think == Take(SelectSeq(out, IsThink), 1)
        rest0 == SelectSeq(out, NotThink)
        NotAdvanced(tc) == tc.name # "advanced_search_and_retrieve"
        rest1 == IF ~Truthy(selected) THEN SelectSeq(rest0, NotAdvanced) ELSE rest0
        Allowed(tc) == /\ tc.name \in ALLOWED_TOOLS
                       /\ (tc.name \notin BLOCKED_UNTIL_SELECTION \/ Truthy(selected))
        rest == SelectSeq(rest1, Allowed)
        max_actions == Max(0, max_tool_calls_per_turn - Len(think))
        chosen == think \o Take(rest_sorted(rest), max_actions)
        Named(tc) == tc.name # ""
    IN  SelectSeq(chosen, Named)

(***************************************************************************)
(* Candidate extraction                                                    *)
(***************************************************************************)
\* key of supervisor_tools._dedup: lower-cased url, else lower-cased name
DedupKey(c) == IF Lower(c.url) # "" THEN Lower(c.url) ELSE Lower(c.name)

RECURSIVE DedupFrom(_, _, _)
DedupFrom(lst, seen, out) ==
    IF lst = <<>> THEN out
    ELSE LET c == Head(lst)
             key == DedupKey(c)
         IN  IF key = "" \/ key \in seen
             THEN DedupFrom(Tail(lst), seen, out)
             ELSE DedupFrom(Tail(lst), seen \cup {key}, Append(out, c))

_dedup(lst) == DedupFrom(lst, {}, <<>>)

\* first-seen filter on the exact url (the `seen` set of the structural pass)
RECURSIVE SeenFilter(_, _, _)
SeenFilter(items, seen, out) ==
    IF items = <<>> THEN out
    ELSE LET cand == Head(items)
         IN  IF cand.url \in seen
             THEN SeenFilter(Tail(items), seen, out)
             ELSE SeenFilter(Tail(items), seen \cup {cand.url}, Append(out, cand))

\* out.sort(key=_score): stable, highest score first (scores range over 0..4)
SortByScore(out) ==
    LET S4(c) == _score(c) = 4
        S3(c) == _score(c) = 3
        S2(c) == _score(c) = 2
        S1(c) == _score(c) = 1
        S0(c) == _score(c) = 0
    IN  SelectSeq(out, S4) \o SelectSeq(out, S3) \o SelectSeq(out, S2)
        \o SelectSeq(out, S1) \o SelectSeq(out, S0)

\* items: the result items of the batch's dict results, in result order
extract_candidates_from_serp_outputs(items) == SortByScore(SeenFilter(items, {}, <<>>))

(***************************************************************************)
(* Notes.  A note is a tag; the tags ending in "+url" stand for note texts *)
(* in which _extract_urls_from_notes finds a URL.                          *)
(***************************************************************************)
NoteHasUrl(n) == n \in {"image_candidates+url", "web_search_candidates+url",
                        "summary+url", "web_scraper+url"}

_extract_urls_from_notes(ns) == {i \in 1..Len(ns) : NoteHasUrl(ns[i])}

(***************************************************************************)
(* supervisor_tools: building the batch from the last planner message      *)
(***************************************************************************)
NoneIdx == -1

use_judge == TRUE

\* variant: a filter that blocks nothing
_is_blocked_never(call) == FALSE

\* rejected = set(state["rejected_urls"]);  _is_blocked(call)
_is_blocked(call) == call.name = "web_scraper" /\ call.url \in rejected_urls

NotIsBlocked(call) == ~_is_blocked(call)

\* appends {"name": nm, "args": {}} when nm is not among the names in `have`
InjectImage(lst, have, nm) == IF nm \in have THEN lst ELSE Append(lst, Call(nm, ""))

\* variant: the probe is due whenever there is an image hint
ProbeDue_every_turn == image_url

\* the one-shot image probe is still due
ProbeDue == image_url /\ ~image_probe_done

\* variant: the budget left computed without the calls already used
remaining_ignoring_used == Max(0, max_total_serp_calls)

remaining == Max(0, Max(0, max_total_serp_calls) - serp_calls_used)

reserve_for_images == IF ProbeDue THEN 2 ELSE 0

\* the three sub-batches supervisor_tools dispatches for the planner's calls
Batch(calls) ==
    LET action_calls == SelectSeq(calls, NotThink)
        IsConduct(c) == c.name = "conduct_research"
        conduct_calls == SelectSeq(action_calls, IsConduct)
        IsSerp(c) == c.name \in serpish
        NotBlockedName(c) == c.name \notin BLOCKED_UNTIL_SELECTION
        all_search == SelectSeq(action_calls, IsSerp)
        search_calls == IF ~Truthy(selected_candidate)
                        THEN SelectSeq(all_search, NotBlockedName) ELSE all_search
        IsImage(c) == c.name \in image_tool_names
        NotImage(c) == c.name \notin image_tool_names
        listed == SelectSeq(search_calls, IsImage)
        have == {c.name : c \in Range(listed)}
        injected == IF ProbeDue
                    THEN InjectImage(InjectImage(listed, have, "google_reverse_image_search"),
                                     have, "google_lens_search")
                    ELSE listed
        Other(c) == c \notin Range(conduct_calls) /\ c \notin Range(search_calls)
        image_calls_all == SelectSeq(injected, NotIsBlocked)
        nonimage_calls_all == SelectSeq(SelectSeq(search_calls, NotImage), NotIsBlocked)
        other_calls == SelectSeq(SelectSeq(action_calls, Other), NotIsBlocked)
        budget_for_images ==
            Min(Len(image_calls_all),
                Max(0, IF reserve_for_images # 0
                       THEN Min(remaining, reserve_for_images) ELSE remaining))
        image_calls == Take(image_calls_all, budget_for_images)
        remaining_after_images == remaining - Len(image_calls)
        nonimage_calls == Take(nonimage_calls_all, Max(0, remaining_after_images))
    IN  [image_calls |-> image_calls,
         nonimage_calls |-> nonimage_calls,
         other_calls |-> other_calls,
         blocked |-> SelectSeq(action_calls, _is_blocked),
         injected |-> Max(0, Len(image_calls) - Len(SelectSeq(listed, NotIsBlocked))),
         over_budget |-> (Len(image_calls_all) - Len(image_calls))
                         + (Len(nonimage_calls_all) - Len(nonimage_calls))]

\* history record of one supervisor_tools step: the URLs its web_scraper calls
\* fetched, the URLs of the calls _is_blocked removed, and how many search
\* calls the budget clip left out
NoTurn == [fetched |-> {}, blocked |-> {}, over_budget |-> 0, ran |-> FALSE,
           actions |-> 0, remaining |-> 0, dispatched |-> 0, stop_now |-> FALSE,
           injected |-> 0, judged |-> <<>>, auto_winner |-> -1]

\* ran: the step got past the early returns; actions: the planner's calls
\* other than think_tool; remaining: the budget left when the step began;
\* dispatched: the calls of the three sub-batches; stop_now: the safety guard fired;
\* injected: the dispatched image calls that supervisor_tools appended itself;
\* judged: the list judge_candidates was called on (empty: it was not called);
\* auto_winner: winner_index of a verdict that has a winner, no should-pause flag
\* and no bias alarm (the test of the auto-select branch), -1 for any other verdict
TurnLog(b, calls, stop, judged, auto_winner) ==
    [fetched |-> {c.url : c \in {d \in Range(b.other_calls) : d.name = "web_scraper"}},
     blocked |-> {c.url : c \in Range(b.blocked)},
     over_budget |-> b.over_budget,
     ran |-> TRUE,
     actions |-> Len(SelectSeq(calls, NotThink)),
     remaining |-> remaining,
     dispatched |-> Len(b.image_calls) + Len(b.nonimage_calls) + Len(b.other_calls),
     stop_now |-> stop,
     injected |-> b.injected,
     judged |-> judged,
     auto_winner |-> auto_winner]

\* serp_candidates filtered by rejected, then _dedup (the top-up of this branch
\* parses `raw`, never the extractor's answer `ext`, and adds no candidate)
combined_candidates(items) ==
    LET NotRejected(c) == c.url \notin rejected_urls
    IN  _dedup(SelectSeq(extract_candidates_from_serp_outputs(items), NotRejected))

(***************************************************************************)
(* Oracle outputs seen by one supervisor_tools turn                        *)
(***************************************************************************)
\* what judge_candidates can return for n >= 1 candidates (see JudgeVerdictSound)
JudgeVerdicts(n) ==
    {v \in [winner_index : {NoneIdx} \cup 0..(n - 1),
            should_pause_for_human : BOOLEAN,
            bias_alarm : BOOLEAN] :
        v.winner_index = NoneIdx => v.should_pause_for_human}

\* the winner_index of an evaluator's answer, when it parses: null or an integer, or any other
\* JSON value (a string, a fraction, a list)
WinnerIndexKinds == {"int_or_null", "malformed"}

NoVerdict == [winner_index |-> NoneIdx, should_pause_for_human |-> FALSE, bias_alarm |-> FALSE]

\* content of the aggregator's summary: empty, without a URL, with a URL
Summaries == {"", "summary", "summary+url"}

\* text of a fetched page: without a URL, with a URL
Scraped == {"web_scraper", "web_scraper+url"}

\* t.ainvoke of an "Other tools" call: a page text, or an exception ("raise")
ToolOutcomes == Scraped \cup {"raise"}

\* candidate lists a language-model answer can carry
LlmLists == SeqsUpTo(LlmItems, MaxExtracted)

NoArb == [ok |-> FALSE, candidates |-> <<>>, should_pause_for_human |-> FALSE]

\* adjudicate_conflicts: raised (ok = FALSE) or a dict with optional candidates
ArbOutputs ==
    [ok : {TRUE}, candidates : LlmLists, should_pause_for_human : BOOLEAN] \cup {NoArb}

(***************************************************************************)
(* supervisor_tools: the update dict of one turn that gets past the early  *)
(* returns.  b: the batch; img_found: the image wave produced matches;     *)
(* combined: combined_candidates of the non-image wave; judge_out:         *)
(* judge_candidates' verdict; summary / extracted: aggregator summary and  *)
(* the candidates extracted from it; scraped: the text web_scraper gave;   *)
(* arb: adjudicate_conflicts' answer.                                      *)
(***************************************************************************)
TurnUpdate(b, img_found, combined, judge_out, summary, extracted, scraped, arb) ==
    LET \* --- IMAGE TOOLS FIRST ---
        img_notes == IF b.image_calls = <<>> THEN <<>>
                     ELSE IF img_found THEN <<"image_candidates+url">> ELSE <<"image_none">>
        used1 == serp_calls_used + Len(b.image_calls)
        probe1 == IF b.image_calls = <<>> THEN image_probe_done ELSE TRUE
        \* --- NON-IMAGE PARALLEL SEARCHES ---
        structural == b.nonimage_calls # <<>> /\ combined # <<>>
        summarised == b.nonimage_calls # <<>> /\ combined = <<>>
        auto_select == /\ structural
                       /\ ~judge_out.should_pause_for_human
                       /\ judge_out.winner_index # NoneIdx
                       /\ ~judge_out.bias_alarm
                       /\ 0 <= judge_out.winner_index
                       /\ judge_out.winner_index < Len(combined)
        selected_candidate_update ==
            IF auto_select THEN combined[judge_out.winner_index + 1] ELSE NoCandidate
        note_text == IF structural THEN "web_search_candidates+url"
                     ELSE IF summarised THEN summary ELSE ""
        search_notes == IF structural THEN <<note_text, "judge">>
                        ELSE IF summarised THEN <<note_text>> ELSE <<>>
        used2 == IF b.nonimage_calls # <<>> THEN used1 + Len(b.nonimage_calls) ELSE used1
        new1 == IF structural THEN combined
                ELSE IF summarised THEN _dedup(extracted) ELSE <<>>
        awaiting1 == IF structural THEN ~auto_select
                     ELSE IF summarised THEN new1 # <<>> ELSE FALSE
        \* --- Other tools ---
        other_notes == [i \in 1..Len(b.other_calls) |-> scraped]
        all_notes == img_notes \o search_notes \o other_notes
        \* --- Judge (optional) ---
        arbitrated == note_text # "" /\ use_judge /\ arb.ok
        new2 == IF arbitrated /\ arb.candidates # <<>>
                THEN _dedup(new1 \o arb.candidates) ELSE new1
        awaiting2 == IF arbitrated /\ arb.should_pause_for_human THEN TRUE ELSE awaiting1
        \* --- SAFETY GUARD ---
        stop_now == new2 = <<>> /\ _extract_urls_from_notes(all_notes) = {}
    IN  [notes |-> all_notes,
         serp_calls_used |-> used2,
         candidates |-> new2,
         awaiting_disambiguation |-> IF stop_now THEN FALSE ELSE awaiting2,
         image_probe_done |-> probe1,
         stop_now |-> stop_now,
         judged |-> IF structural THEN combined ELSE <<>>,
         auto_winner |-> IF /\ structural
                            /\ ~judge_out.should_pause_for_human
                            /\ judge_out.winner_index # NoneIdx
                            /\ ~judge_out.bias_alarm
                         THEN judge_out.winner_index ELSE NoneIdx,
         selected_candidate |-> IF Truthy(selected_candidate_update)
                                THEN selected_candidate_update ELSE selected_candidate]

\* every update one turn on batch b can return, over the oracles' answers: the
\* image wave's matches, the search results, the verdict of judge_candidates, the
\* summary and its extraction, the fetched text and the adjudication
TurnUpdates(b) ==
    UNION {
        LET combined == combined_candidates(items)
            structural == b.nonimage_calls # <<>> /\ combined # <<>>
            summarised == b.nonimage_calls # <<>> /\ combined = <<>>
        IN  UNION {
                {TurnUpdate(b, img_found, combined, judge_out, summary, extracted,
                            scraped, arb) :
                    arb \in (IF structural \/ (summarised /\ summary # "")
                             THEN ArbOutputs ELSE {NoArb})} :
                judge_out \in (IF structural THEN JudgeVerdicts(Len(combined))
                               ELSE {NoVerdict}),
                summary \in (IF summarised THEN Summaries ELSE {""}),
                extracted \in (IF summarised THEN LlmLists ELSE {<<>>}),
                scraped \in (IF b.other_calls # <<>> THEN ToolOutcomes \ {"raise"}
                             ELSE {"web_scraper"})} :
        img_found \in (IF b.image_calls # <<>> THEN BOOLEAN ELSE {FALSE}),
        items \in (IF b.nonimage_calls # <<>>
                   THEN SeqsUpTo(SerpItems, MaxCandidates) ELSE {<<>>})}

(***************************************************************************)
(* The arbitration engine: judge_candidates                                *)
(***************************************************************************)
JUDGE_SELF_CONSISTENCY_RUNS == 2

\* thresholds in percent: 0.60 and 0.20
JUDGE_PAUSE_THRESHOLD == 60

JUDGE_POSITION_FLIP_ALARM == 20

\* confidences an evaluator can report, in percent
ConfValues == {30, 90}

\* candidates handed to the judge: the structural pass gives every candidate a
\* non-empty url and _dedup leaves the urls distinct; titles may coincide
JudgeItems == {Cand("a", U1), Cand("A", U2)}

Injective(s) == \A i, k \in 1..Len(s) : s[i] = s[k] => i = k

JudgeLists == {s \in SeqsUpTo(JudgeItems, MaxJudged) : Injective(s)}

\* random.shuffle: any order of the list
Shuffles(lst) == {s \in [1..Len(lst) -> Range(lst)] : Range(s) = Range(lst)}

_swap(cands) ==
    IF Len(cands) <= 1 THEN cands
    ELSE <<cands[2], cands[1]>> \o SubSeq(cands, 3, Len(cands))

SetMin(S) == CHOOSE x \in S : \A y \in S : x <= y

\* variant: the evaluator's position taken as the original index
map_index_positional(cands, winner_idx) ==
    IF winner_idx = NoneIdx \/ winner_idx < 0 \/ winner_idx >= Len(cands) THEN NoneIdx
    ELSE winner_idx

\* judge_candidates.map_index: strict url match, then lower-cased name
map_index(cands, winner_idx) ==
    IF winner_idx = NoneIdx \/ winner_idx < 0 \/ winner_idx >= Len(cands) THEN NoneIdx
    ELSE LET chosen == cands[winner_idx + 1]
             by_url == {i \in 1..Len(cand_list) :
                            chosen.url # "" /\ chosen.url = cand_list[i].url}
             by_name == {i \in 1..Len(cand_list) :
                            chosen.name # "" /\ Lower(chosen.name) = Lower(cand_list[i].name)}
         IN  IF by_url # {} THEN SetMin(by_url) - 1
             ELSE IF by_name # {} THEN SetMin(by_name) - 1
             ELSE NoneIdx

\* xai/judge_xai.py: the bias report's own copy of the mapping
_map_index_to_original(cands, winner_idx, orig_cands) ==
    IF winner_idx = NoneIdx \/ winner_idx < 0 \/ winner_idx >= Len(cands) THEN NoneIdx
    ELSE LET chosen == cands[winner_idx + 1]
             by_url == {i \in 1..Len(orig_cands) :
                            chosen.url # "" /\ chosen.url = orig_cands[i].url}
             by_name == {i \in 1..Len(orig_cands) :
                            chosen.name # "" /\ Lower(chosen.name) = Lower(orig_cands[i].name)}
         IN  IF by_url # {} THEN SetMin(by_url) - 1
             ELSE IF by_name # {} THEN SetMin(by_name) - 1
             ELSE NoneIdx

\* variant: max() alone, a tie resolved to one of the tied indices
_winner_from_votes_first(v) ==
    IF DOMAIN v = {} THEN NoneIdx
    ELSE CHOOSE k \in DOMAIN v : \A m \in DOMAIN v : v[m] <= v[k]

_winner_from_votes(v) ==
    IF DOMAIN v = {} THEN NoneIdx
    ELSE LET best == CHOOSE k \in DOMAIN v : \A m \in DOMAIN v : v[m] <= v[k]
             winners == {k \in DOMAIN v : v[k] = v[best]}
         IN  IF Cardinality(winners) = 1 THEN best ELSE NoneIdx

\* sum and length of the confidences list
ConfSum(c) == 30 * c[30] + 90 * c[90]

ConfLen(c) == c[30] + c[90]

NoVotes == [i \in {} |-> 0]

NoConfidences == [c \in ConfValues |-> 0]

NoJudgeOut == [winner_index |-> NoneIdx, conf_sum |-> 0, conf_n |-> 0,
               should_pause_for_human |-> FALSE, swap_total |-> 0, swap_flips |-> 0]

\* the judge's variables while the run specification is checked
JudgeIdle ==
    /\ j_pc = "idle"
    /\ cand_list = <<>>
    /\ j_model = 0
    /\ j_run = 0
    /\ j_tag = "base"
    /\ run_cands = <<>>
    /\ votes = NoVotes
    /\ confidences = NoConfidences
    /\ base_idx = NoneIdx
    /\ swap_total = 0
    /\ swap_flips = 0
    /\ j_out = NoJudgeOut
    /\ picks = {}
    /\ reported = [sum |-> 0, n |-> 0]

\* the pipeline's variables while another specification is checked
ExtractIdle ==
    /\ e_pc = "idle"
    /\ results = <<>>
    /\ seen_order = <<>>
    /\ out_candidates = <<>>

\* the sanitising's variables while another specification is checked
SanitizeIdle ==
    /\ s_pc = "idle"
    /\ out_tool_calls = <<>>

(***************************************************************************)
(* The run: init_state, the graph's nodes and edges, continue_research     *)
(***************************************************************************)
\* init_state(query, image_url) handed to deep_researcher.ainvoke by start_research
Init ==
    /\ pc = "write_research_brief"
    /\ research_brief = FALSE
    /\ image_url \in BOOLEAN
    /\ tool_calls = <<>>
    /\ supervisor_iterations = 0
    /\ notes = <<>>
    /\ serp_calls_used = 0
    /\ candidates = <<>>
    /\ awaiting_disambiguation = FALSE
    /\ selected_candidate = NoCandidate
    /\ rejected_urls = {}
    /\ image_probe_done = FALSE
    /\ turn_log = NoTurn
    /\ new_candidates = <<>>
    /\ resumed = FALSE
    /\ complete_proposed = FALSE
    /\ selection = NoneIdx
    /\ JudgeIdle
    /\ ExtractIdle
    /\ SanitizeIdle

\* node write_research_brief; image_url has the keep_first_value reducer, the
\* list fields the operator.add reducer (adding [] changes nothing)
write_research_brief ==
    /\ pc = "write_research_brief"
    /\ \E found \in BOOLEAN : image_url' = (image_url \/ found)
    /\ research_brief' = TRUE
    /\ supervisor_iterations' = 0
    /\ serp_calls_used' = 0
    /\ awaiting_disambiguation' = FALSE
    /\ selected_candidate' = NoCandidate
    /\ pc' = "supervisor"
    /\ UNCHANGED <<tool_calls, notes, candidates, rejected_urls, image_probe_done,
                   turn_log, new_candidates, resumed, complete_proposed, selection>>
    /\ UNCHANGED <<judgevars, extractvars, sanitizevars>>

\* getattr(c, "name", "") on the dicts of AIMessage.tool_calls
CallAttrName(c) == ""

\* conditional edge after supervisor, on the state the node has just written
should_continue_supervisor(awaiting, iters, calls) ==
    IF awaiting THEN "__end__"
    ELSE IF iters >= max_researcher_iterations THEN "__end__"
    ELSE IF calls = <<>> THEN "__end__"
    ELSE IF \E c \in Range(calls) : CallAttrName(c) = "research_complete" THEN "__end__"
    ELSE "supervisor_tools"

\* what the successive model_struct.ainvoke calls of one supervisor step do: the
\* first answers ("ok"), raises a length error ("length") or any other error
\* ("error"); only a length error is followed by a second call
PlannerOutcomes == {<<"ok">>, <<"error">>, <<"length", "ok">>, <<"length", "error">>,
                    <<"length", "length">>}

\* the exception leaves the node: the first call raised something other than a
\* length error, or the retry raised
PlannerRaises(outcome) == outcome[Len(outcome)] # "ok"

HasComplete(out) == \E k \in 1..Len(out) : out[k].name = "research_complete"

\* every proposal of the oracle as the node sees it: the std list it keeps and
\* whether the raw proposal held research_complete.  The sanitising reads the
\* state only through the truth of selected_candidate.
TurnsWithSelection ==
    {<<Sanitize(out, Cand("a", U1)), HasComplete(out)>> : out \in Proposals}

TurnsWithoutSelection ==
    {<<Sanitize(out, NoCandidate), HasComplete(out)>> : out \in Proposals}

PlannerTurns(selected) == IF selected THEN TurnsWithSelection ELSE TurnsWithoutSelection

\* node supervisor (one turn of the planning oracle, sanitised) and its
\* conditional edge.  tool_calls holds the calls awaiting dispatch: when the
\* edge ends the invocation nothing reads the last planner message again.
\* An exception that leaves the node leaves ainvoke: no update is applied.
supervisor ==
    /\ pc = "supervisor"
    /\ \/ /\ \E outcome \in PlannerOutcomes : PlannerRaises(outcome)
          /\ pc' = "raised:supervisor"
          /\ UNCHANGED <<tool_calls, supervisor_iterations, turn_log,
                         complete_proposed, selection>>
       \/ /\ \E outcome \in PlannerOutcomes : ~PlannerRaises(outcome)
          /\ \E turn \in PlannerTurns(Truthy(selected_candidate)) :
               LET std == turn[1]
                   to == should_continue_supervisor(awaiting_disambiguation,
                                                    supervisor_iterations + 1, std)
               IN  /\ pc' = to
                   /\ tool_calls' = IF to = "__end__" THEN <<>> ELSE std
                   /\ complete_proposed' = turn[2]
          /\ supervisor_iterations' = supervisor_iterations + 1
          /\ turn_log' = NoTurn
          /\ selection' = NoneIdx
    /\ UNCHANGED <<research_brief, image_url, notes, serp_calls_used, candidates,
                   awaiting_disambiguation, selected_candidate, rejected_urls,
                   image_probe_done, new_candidates, resumed>>
    /\ UNCHANGED <<judgevars, extractvars, sanitizevars>>

\* node supervisor_tools, followed by the edge supervisor_tools -> supervisor;
\* notes and candidates are merged by their operator.add reducers, and the
\* ToolMessages appended to planner_messages (there is always one: a result
\* note or the early_stop message) leave the last message without tool_calls
supervisor_tools ==
    /\ pc = "supervisor_tools"
    /\ Len(notes) < MaxNotes
    /\ Len(candidates) < MaxCandidates
    /\ IF (candidates # <<>> /\ ~Truthy(selected_candidate)) \/ awaiting_disambiguation
       THEN /\ awaiting_disambiguation' = TRUE
            /\ turn_log' = NoTurn
            /\ pc' = "supervisor"
            /\ UNCHANGED <<tool_calls, notes, serp_calls_used, candidates,
                           selected_candidate, image_probe_done, new_candidates>>
       ELSE IF tool_calls = <<>>
       THEN /\ pc' = "supervisor"
            /\ UNCHANGED <<tool_calls, notes, serp_calls_used, candidates,
                           selected_candidate, image_probe_done, awaiting_disambiguation,
                           turn_log, new_candidates>>
       ELSE LET b == Batch(tool_calls)
            IN  \/ \* t.ainvoke of "Other tools" raised: no update is applied
                   /\ b.other_calls # <<>>
                   /\ \E scraped \in ToolOutcomes : scraped = "raise"
                   /\ pc' = "raised:supervisor_tools"
                   /\ UNCHANGED <<tool_calls, notes, serp_calls_used, candidates,
                                  selected_candidate, image_probe_done,
                                  awaiting_disambiguation, turn_log, new_candidates>>
                \/ \* judge_candidates was called (the results gave candidates) and
                   \* an evaluator's answer carried a malformed winner_index: the
                   \* tally's TypeError leaves judge_candidates and the node
                   /\ b.nonimage_calls # <<>>
                   /\ \E items \in SeqsUpTo(SerpItems, MaxCandidates) :
                         combined_candidates(items) # <<>>
                   /\ \E kind \in WinnerIndexKinds : kind = "malformed"
                   /\ pc' = "raised:judge_candidates"
                   /\ UNCHANGED <<tool_calls, notes, serp_calls_used, candidates,
                                  selected_candidate, image_probe_done,
                                  awaiting_disambiguation, turn_log, new_candidates>>
                \/ \E up \in TurnUpdates(b) :
                       /\ notes' = notes \o [i \in 1..Len(up.notes) |-> "note"]
                       /\ serp_calls_used' = up.serp_calls_used
                       /\ candidates' = candidates \o up.candidates
                       /\ awaiting_disambiguation' = up.awaiting_disambiguation
                       /\ image_probe_done' = up.image_probe_done
                       /\ selected_candidate' = up.selected_candidate
                       /\ new_candidates' = up.candidates
                       /\ turn_log' = TurnLog(b, tool_calls, up.stop_now, up.judged,
                                              up.auto_winner)
                       /\ tool_calls' = <<>>
                       /\ pc' = "supervisor"
    /\ complete_proposed' = FALSE
    /\ UNCHANGED <<research_brief, image_url, supervisor_iterations,
                   rejected_urls, resumed, selection>>
    /\ UNCHANGED <<judgevars, extractvars, sanitizevars>>

\* variant: a "none of these" that keeps only the URLs rejected just now
resume_forgetting_rejected(selection_index) ==
    LET chose_none == selection_index < 0 \/ selection_index >= Len(candidates)
        chosen == IF chose_none THEN NoCandidate ELSE candidates[selection_index + 1]
        rejected == {c.url : c \in {d \in Range(candidates) : d.url # ""}}
    IN  [selected_candidate |-> chosen,
         awaiting_disambiguation |-> FALSE,
         rejected_urls |-> IF chose_none THEN rejected ELSE rejected_urls,
         candidates |-> IF chose_none THEN <<>> ELSE candidates]

\* variant: a selection that always takes the first candidate
resume_first_candidate(selection_index) ==
    LET chose_none == selection_index < 0 \/ selection_index >= Len(candidates)
        chosen == IF chose_none THEN NoCandidate ELSE candidates[1]
        rejected == {c.url : c \in {d \in Range(candidates) : d.url # ""}}
    IN  [selected_candidate |-> chosen,
         awaiting_disambiguation |-> FALSE,
         rejected_urls |-> IF chose_none THEN rejected_urls \cup rejected ELSE rejected_urls,
         candidates |-> IF chose_none THEN <<>> ELSE candidates]

\* variant: a "none of these" that leaves the candidates in place
resume_keeping_candidates(selection_index) ==
    LET chose_none == selection_index < 0 \/ selection_index >= Len(candidates)
        chosen == IF chose_none THEN NoCandidate ELSE candidates[selection_index + 1]
        rejected == {c.url : c \in {d \in Range(candidates) : d.url # ""}}
    IN  [selected_candidate |-> chosen,
         awaiting_disambiguation |-> FALSE,
         rejected_urls |-> IF chose_none THEN rejected_urls \cup rejected ELSE rejected_urls,
         candidates |-> candidates]

\* resume_after_user_choice(prev_state, selection_index)
resume_after_user_choice(selection_index) ==
    LET chose_none == selection_index < 0 \/ selection_index >= Len(candidates)
        chosen == IF chose_none THEN NoCandidate ELSE candidates[selection_index + 1]
        rejected == {c.url : c \in {d \in Range(candidates) : d.url # ""}}
    IN  [selected_candidate |-> chosen,
         awaiting_disambiguation |-> FALSE,
         rejected_urls |-> IF chose_none THEN rejected_urls \cup rejected ELSE rejected_urls,
         candidates |-> IF chose_none THEN <<>> ELSE candidates]

\* continue_research: resume_after_user_choice, then ainvoke; _route_entry goes to
\* supervisor because research_brief is set.  The driver resumes a finished
\* invocation when it is paused with candidates to choose from.
continue_research ==
    /\ pc = "__end__"
    /\ awaiting_disambiguation /\ candidates # <<>>
    /\ supervisor_iterations < MaxResumeIterations
    /\ \E selection_index \in (-1)..Len(candidates) :
         LET st == resume_after_user_choice(selection_index)
         IN  /\ selected_candidate' = st.selected_candidate
             /\ awaiting_disambiguation' = st.awaiting_disambiguation
             /\ rejected_urls' = st.rejected_urls
             /\ candidates' = st.candidates
             /\ selection' = selection_index
    /\ pc' = IF research_brief THEN "supervisor" ELSE "write_research_brief"
    /\ resumed' = TRUE
    /\ complete_proposed' = FALSE
    /\ UNCHANGED <<research_brief, image_url, tool_calls, supervisor_iterations, notes,
                   serp_calls_used, image_probe_done, turn_log, new_candidates>>
    /\ UNCHANGED <<judgevars, extractvars, sanitizevars>>

Next ==
    \/ write_research_brief
    \/ supervisor
    \/ supervisor_tools
    \/ continue_research

Spec == Init /\ [][Next]_vars

(***************************************************************************)
(* judge_candidates as a state machine: the committee's invocations in the *)
(* order the tally loop reads them, then the aggregation                   *)
(***************************************************************************)
sc_runs == Max(1, JUDGE_SELF_CONSISTENCY_RUNS)

\* original index of the candidate the evaluator pointed at (history only)
PickedIndex(cands, w) ==
    IF w < 0 \/ w >= Len(cands) THEN NoneIdx
    ELSE (CHOOSE i \in 1..Len(cand_list) : cand_list[i] = cands[w + 1]) - 1

\* pos_bias_rate >= position_flip_alarm, with rate = flips / total (0.0 if total = 0)
BiasAlarm(o) ==
    o.swap_total > 0 /\ o.swap_flips * 100 >= JUDGE_POSITION_FLIP_ALARM * o.swap_total

\* avg_conf < pause_threshold_f, with avg_conf = sum / n (0.0 if n = 0)
BelowThreshold(sum, n) ==
    IF n = 0 THEN 0 < JUDGE_PAUSE_THRESHOLD ELSE sum < JUDGE_PAUSE_THRESHOLD * n

\* a call of judge_candidates on one of the given lists
JudgeInitFrom(lists) ==
    /\ pc = "judge_candidates"
    /\ research_brief = TRUE
    /\ image_url = FALSE
    /\ tool_calls = <<>>
    /\ supervisor_iterations = 0
    /\ notes = <<>>
    /\ serp_calls_used = 0
    /\ candidates = <<>>
    /\ awaiting_disambiguation = FALSE
    /\ selected_candidate = NoCandidate
    /\ rejected_urls = {}
    /\ image_probe_done = FALSE
    /\ turn_log = NoTurn
    /\ new_candidates = <<>>
    /\ resumed = FALSE
    /\ complete_proposed = FALSE
    /\ selection = NoneIdx
    /\ ExtractIdle
    /\ SanitizeIdle
    /\ j_pc = "start"
    /\ cand_list \in lists
    /\ j_model = 0
    /\ j_run = 0
    /\ j_tag = "base"
    /\ run_cands = <<>>
    /\ votes = NoVotes
    /\ confidences = NoConfidences
    /\ base_idx = NoneIdx
    /\ swap_total = 0
    /\ swap_flips = 0
    /\ j_out = NoJudgeOut
    /\ picks = {}
    /\ reported = [sum |-> 0, n |-> 0]

\* a call of judge_candidates on any list the caller can pass, or on the empty list
JudgeInit == JudgeInitFrom(JudgeLists)

\* entry of judge_candidates: the early return on an empty list, else the first
\* member's first shuffle
judge_start ==
    /\ j_pc = "start"
    /\ IF cand_list = <<>>
       THEN /\ j_out' = [winner_index |-> NoneIdx, conf_sum |-> 0, conf_n |-> 0,
                         should_pause_for_human |-> FALSE,
                         swap_total |-> 0, swap_flips |-> 0]
            /\ j_pc' = "done"
            /\ UNCHANGED <<j_model, j_run, j_tag, run_cands>>
       ELSE /\ j_pc' = "committee"
            /\ j_model' = 1
            /\ j_run' = 1
            /\ j_tag' = "base"
            /\ run_cands' \in Shuffles(cand_list)
            /\ UNCHANGED j_out
    /\ UNCHANGED <<cand_list, votes, confidences, base_idx, swap_total, swap_flips,
                   picks, reported>>
    /\ UNCHANGED <<runvars, extractvars, sanitizevars>>

\* one evaluator invocation (run_once's base or swap call), the tally loop's
\* handling of its answer and the bias report's handling of it.  A call that
\* raises, or whose output stays unparseable after the retry, answers
\* winner_index null (w = -1).  On a winner_index that is neither null nor an
\* integer map_index's comparison `winner_idx < 0` (or the list subscript) raises
\* and nothing around the tally loop catches it.
_call_judge_model ==
    /\ j_pc = "committee"
    /\ \E kind \in WinnerIndexKinds :
       \/ /\ kind = "malformed"
          /\ j_pc' = "raised"
          /\ UNCHANGED <<j_model, j_run, j_tag, run_cands, votes, confidences, base_idx,
                         swap_total, swap_flips, picks, reported>>
       \/ /\ kind = "int_or_null"
          /\ \E w \in (-1)..Len(run_cands), conf \in ConfValues :
              LET mapped == map_index(run_cands, w)
                  idx == _map_index_to_original(run_cands, w, cand_list)
                  last_of_run == j_tag = "swap" \/ Len(run_cands) < 2
                  last_of_model == last_of_run /\ j_run >= sc_runs
                  last_of_all == last_of_model /\ j_model >= NumModels
              IN  /\ votes' = IF mapped = NoneIdx THEN votes
                              ELSE IF mapped \in DOMAIN votes
                                   THEN [votes EXCEPT ![mapped] = @ + 1]
                                   ELSE votes @@ (mapped :> 1)
                  /\ confidences' = IF mapped = NoneIdx THEN confidences
                                    ELSE [confidences EXCEPT ![conf] = @ + 1]
                  /\ base_idx' = IF j_tag = "base" /\ ~last_of_run THEN idx ELSE NoneIdx
                  /\ swap_total' = IF j_tag = "swap" /\ base_idx # NoneIdx /\ idx # NoneIdx
                                   THEN swap_total + 1 ELSE swap_total
                  /\ swap_flips' = IF j_tag = "swap" /\ base_idx # NoneIdx /\ idx # NoneIdx
                                      /\ base_idx # idx
                                   THEN swap_flips + 1 ELSE swap_flips
                  /\ picks' = picks \cup {PickedIndex(run_cands, w)}
                  /\ reported' = [sum |-> reported.sum + conf, n |-> reported.n + 1]
                  /\ j_pc' = IF last_of_all THEN "aggregate" ELSE "committee"
                  /\ j_tag' = IF last_of_run THEN "base" ELSE "swap"
                  /\ j_run' = IF last_of_all THEN j_run
                              ELSE IF last_of_model THEN 1
                              ELSE IF last_of_run THEN j_run + 1 ELSE j_run
                  /\ j_model' = IF last_of_model /\ ~last_of_all THEN j_model + 1 ELSE j_model
                  /\ run_cands' \in (IF last_of_all THEN {<<>>}
                                     ELSE IF last_of_run THEN Shuffles(cand_list)
                                     ELSE {_swap(run_cands)})
    /\ UNCHANGED <<cand_list, j_out>>
    /\ UNCHANGED <<runvars, extractvars, sanitizevars>>

\* _winner_from_votes, _aggregate_confidences, should_pause and the attached
\* diagnostics.bias
judge_aggregate ==
    /\ j_pc = "aggregate"
    /\ j_out' = [winner_index |-> _winner_from_votes(votes),
                 conf_sum |-> ConfSum(confidences),
                 conf_n |-> ConfLen(confidences),
                 should_pause_for_human |->
                     (_winner_from_votes(votes) = NoneIdx
                      \/ BelowThreshold(ConfSum(confidences), ConfLen(confidences))),
                 swap_total |-> swap_total,
                 swap_flips |-> swap_flips]
    /\ j_pc' = "done"
    /\ UNCHANGED <<cand_list, j_model, j_run, j_tag, run_cands, votes, confidences,
                   base_idx, swap_total, swap_flips, picks, reported>>
    /\ UNCHANGED <<runvars, extractvars, sanitizevars>>

JudgeNext ==
    \/ judge_start
    \/ _call_judge_model
    \/ judge_aggregate

SpecJudge == JudgeInit /\ [][JudgeNext]_vars

\* judge_candidates as a function of its argument: _normalize_candidates takes any
\* sequence of mappings and reads a missing url as "", so a list may hold
\* candidates without a url and candidates with the same name
EngineItems == JudgeItems \cup {Cand("a", "")}

EngineLists == {s \in SeqsUpTo(EngineItems, MaxJudged) : Injective(s)}

JudgeInitAny == JudgeInitFrom(EngineLists)

SpecJudgeAny == JudgeInitAny /\ [][JudgeNext]_vars

(***************************************************************************)
(* The candidate pipeline of supervisor_tools as a state machine: the      *)
(* structural pass or the extraction from the summary, then the merge of   *)
(* the adjudication's candidates                                           *)
(***************************************************************************)
U1u == "HTTP://SITE.ORG/A"

\* result items with link and title; two links differ in case only
ResultItems == {Cand("a", U1), Cand("profile", U1u), Cand("b", U2)}

\* candidates a language-model answer can carry: with a url, with a name only
AnswerItems == {Cand("a", U1), Cand("a", ""), Cand("A", "")}

ExtractInit ==
    /\ pc = "supervisor_tools"
    /\ research_brief = TRUE
    /\ image_url = FALSE
    /\ tool_calls = <<Call("google_search", "")>>
    /\ supervisor_iterations = 1
    /\ notes = <<>>
    /\ serp_calls_used = 0
    /\ candidates = <<>>
    /\ awaiting_disambiguation = FALSE
    /\ selected_candidate = NoCandidate
    /\ rejected_urls \in SUBSET {U2}
    /\ image_probe_done = FALSE
    /\ turn_log = NoTurn
    /\ new_candidates = <<>>
    /\ resumed = FALSE
    /\ complete_proposed = FALSE
    /\ selection = NoneIdx
    /\ JudgeIdle
    /\ SanitizeIdle
    /\ e_pc = "start"
    /\ results \in SeqsUpTo(ResultItems, MaxResults)
    /\ seen_order = <<>>
    /\ out_candidates = <<>>

\* the non-image wave with candidates: combined_candidates of the results
structural_pass ==
    /\ e_pc = "start"
    /\ combined_candidates(results) # <<>>
    /\ out_candidates' = combined_candidates(results)
    /\ seen_order' = LET NotRejected(c) == c.url \notin rejected_urls
                     IN  SelectSeq(results, NotRejected)
    /\ e_pc' = "structural"
    /\ UNCHANGED <<results, runvars, judgevars, sanitizevars>>

\* the non-image wave without candidates: _dedup of what the extractor found
\* in the summary
summary_extraction ==
    /\ e_pc = "start"
    /\ combined_candidates(results) = <<>>
    /\ \E extracted \in SeqsUpTo(AnswerItems, MaxMerged) :
         /\ out_candidates' = _dedup(extracted)
         /\ seen_order' = extracted
    /\ e_pc' = "summarised"
    /\ UNCHANGED <<results, runvars, judgevars, sanitizevars>>

\* the adjudication's candidates, when there are any, merged by _dedup
adjudication_merge ==
    /\ e_pc \in {"structural", "summarised"}
    /\ \E judge_cands_raw \in SeqsUpTo(AnswerItems, MaxMerged) :
         /\ out_candidates' = IF judge_cands_raw # <<>>
                              THEN _dedup(out_candidates \o judge_cands_raw)
                              ELSE out_candidates
         /\ seen_order' = seen_order \o judge_cands_raw
    /\ e_pc' = "merged"
    /\ UNCHANGED <<results, runvars, judgevars, sanitizevars>>

ExtractNext == structural_pass \/ summary_extraction \/ adjudication_merge

SpecExtract == ExtractInit /\ [][ExtractNext]_vars

(***************************************************************************)
(* The supervisor's sanitising of a proposal, checked on every proposal    *)
(* the oracle can make, with and without a selected candidate               *)
(***************************************************************************)
SanitizeInit ==
    /\ pc = "supervisor"
    /\ research_brief = TRUE
    /\ image_url = FALSE
    /\ tool_calls = <<>>
    /\ supervisor_iterations = 0
    /\ notes = <<>>
    /\ serp_calls_used = 0
    /\ candidates = <<>>
    /\ awaiting_disambiguation = FALSE
    /\ selected_candidate \in {NoCandidate, Cand("a", U1)}
    /\ rejected_urls = {}
    /\ image_probe_done = FALSE
    /\ turn_log = NoTurn
    /\ new_candidates = <<>>
    /\ resumed = FALSE
    /\ complete_proposed = FALSE
    /\ selection = NoneIdx
    /\ JudgeIdle
    /\ ExtractIdle
    /\ s_pc = "proposed"
    /\ out_tool_calls \in Proposals

\* supervisor, from the oracle's answer to the std list of its AIMessage
supervisor_sanitize ==
    /\ s_pc = "proposed"
    /\ tool_calls' = Sanitize(out_tool_calls, selected_candidate)
    /\ complete_proposed' = HasComplete(out_tool_calls)
    /\ supervisor_iterations' = supervisor_iterations + 1
    /\ s_pc' = "sanitized"
    /\ UNCHANGED <<pc, research_brief, image_url, notes, serp_calls_used, candidates,
                   awaiting_disambiguation, selected_candidate, rejected_urls,
                   image_probe_done, turn_log, new_candidates, resumed, selection,
                   out_tool_calls>>
    /\ UNCHANGED <<judgevars, extractvars>>

SanitizeNext == supervisor_sanitize

SpecSanitize == SanitizeInit /\ [][SanitizeNext]_vars

(***************************************************************************)
(* Properties of the run (specification Spec)                              *)
(***************************************************************************)
\* C1: after any turn, for every sequence of turns and resume calls and whatever
\* the planner proposes, serp_calls_used never exceeds max_total_serp_calls.
C1_BudgetInvariant == serp_calls_used <= max_total_serp_calls

\* a turn whose proposal needed more than the remaining budget has run, and the
\* budget is used up exactly
C1_Witness ==
    /\ pc = "supervisor"
    /\ turn_log.over_budget > 0
    /\ serp_calls_used = max_total_serp_calls

\* C2: no supervisor_tools step dispatches a web_scraper call whose url is in
\* rejected_urls: such a call is removed from the batch before dispatch.
C2_NoRejectedFetch ==
    [][pc = "supervisor_tools" => turn_log'.fetched \cap rejected_urls = {}]_vars

\* a turn has just dropped a proposed fetch of a rejected url
C2_Witness ==
    /\ pc = "supervisor"
    /\ turn_log.blocked # {}
    /\ turn_log.blocked \subseteq rejected_urls
    /\ turn_log.fetched = {}

\* C3: no turn produces a candidate whose url is in rejected_urls, whichever
\* extraction path (structural, language-model extraction, adjudication) made it.
C3_NoRejectedCandidate ==
    [][pc = "supervisor_tools" =>
         \A i \in 1..Len(new_candidates') : new_candidates'[i].url \notin rejected_urls]_vars

\* C4: in a fresh run without any resume call, awaiting_disambiguation and a
\* present selected_candidate never hold together.
C4_NoPauseWithSelection ==
    ~resumed => ~(awaiting_disambiguation /\ Truthy(selected_candidate))

\* C5: once selected_candidate is set, no step of the graph (no turn) changes or
\* clears it; only continue_research, which starts at "__end__", may.
C5_SelectionStable ==
    [][(pc # "__end__" /\ Truthy(selected_candidate))
         => selected_candidate' = selected_candidate]_vars

\* C6: whenever the run awaits disambiguation, the candidates list of the state is
\* exactly the deduplicated set the most recent turn produced.
C6_CandidatesAreCurrent ==
    awaiting_disambiguation => candidates = new_candidates

\* C7: once a turn has set awaiting_disambiguation, the invocation ends at once:
\* the next step is the end of the invocation, with no planner call, and
\* supervisor_iterations, serp_calls_used, notes and candidates stay as they are
\* until continue_research.
C7_PauseEndsInvocation ==
    [][(awaiting_disambiguation /\ pc # "__end__")
         => (pc' = "__end__"
             /\ UNCHANGED <<supervisor_iterations, serp_calls_used, notes, candidates>>)]_vars

\* C11: when the budget left at the start of a turn is smaller than both the
\* number of proposed actions and the per-turn cap, the turn dispatches exactly
\* that many actions and serp_calls_used ends at max_total_serp_calls, for every
\* mix of action categories.
C11_ClipToRemaining ==
    (/\ turn_log.ran
     /\ turn_log.remaining < turn_log.actions
     /\ turn_log.remaining < max_tool_calls_per_turn)
        => (/\ turn_log.dispatched = turn_log.remaining
            /\ serp_calls_used = max_total_serp_calls)

\* C12: once a turn has ended with no candidate and no URL in its notes (the
\* safety guard fired), the run is stopped: the step that follows is no planner
\* call (which would count an iteration or raise) and leads to no dispatch.
C12_SafetyValveStops ==
    [][turn_log.stop_now =>
         (/\ supervisor_iterations' = supervisor_iterations
          /\ pc' \notin {"supervisor_tools", "raised:supervisor"})]_vars

\* C13: over every sequence of start, turn and resume operations,
\* supervisor_iterations never decreases and never exceeds
\* max_researcher_iterations.
C13_IterationsBounded ==
    [][/\ supervisor_iterations' >= supervisor_iterations
       /\ supervisor_iterations' <= max_researcher_iterations]_vars

\* C14: no turn and no resume call removes a URL from rejected_urls: the set
\* after every step contains the set before it.
C14_RejectedOnlyGrows == [][rejected_urls \subseteq rejected_urls']_vars

\* a resume that selected a candidate has just run on a state whose
\* rejected_urls, filled by an earlier "none of these", were not empty
C14_Witness ==
    /\ pc = "supervisor"
    /\ selection >= 0
    /\ Truthy(selected_candidate)
    /\ rejected_urls # {}

\* C15: when the planner's proposal holds research_complete, the loop ends at
\* that turn, whatever else the proposal holds: the conditional edge after the
\* supervisor node leads to "__end__".
C15_CompletionEnds == complete_proposed => pc = "__end__"

\* C16: when a turn is left with no action to dispatch after sanitising (unknown
\* actions, fetches of rejected URLs and gated actions dropped), the loop ends at
\* that turn: the step that follows is no planner call and leads to no dispatch.
C16_EmptyBatchEnds ==
    [][(turn_log.ran /\ turn_log.dispatched = 0) =>
         (/\ supervisor_iterations' = supervisor_iterations
          /\ pc' \notin {"supervisor_tools", "raised:supervisor"})]_vars

C19_ActionErrorContained == pc # "raised:supervisor_tools"

\* C20: an error of the planning oracle never leaves the run: after the one
\* retry the run stops in a terminal state, so the supervisor step never ends
\* with the exception propagating.
C20_PlannerErrorContained == pc # "raised:supervisor"

\* C23: the actions dispatched in one turn (reflection, image, search and fetch
\* actions, the force-injected image actions included) never exceed
\* max_tool_calls_per_turn, and a batch holds at most one reflection: the batch
\* the supervisor hands over is within the cap with at most one think_tool, and
\* the sub-batches supervisor_tools ran for it are within the cap too
C23_DispatchWithinCap ==
    /\ Len(tool_calls) <= max_tool_calls_per_turn
    /\ Len(SelectSeq(tool_calls, IsThink)) <= 1
    /\ turn_log.ran => turn_log.dispatched <= max_tool_calls_per_turn

\* C25: image_probe_done is a one-shot latch: no step of a run (a turn or a resume)
\* takes it from true to false, it is true after every dispatch wave of a run
\* with an image hint (the first included), and a wave dispatches injected image
\* actions only while the latch is still false and sets it, so that injected
\* image actions are dispatched in at most one turn
C25_ProbeLatch ==
    [][/\ image_probe_done => image_probe_done'
       /\ (pc = "supervisor_tools" /\ turn_log'.ran /\ image_url) => image_probe_done'
       /\ (pc = "supervisor_tools" /\ turn_log'.injected > 0)
             => (~image_probe_done /\ image_probe_done')]_vars

\* a resumed run with an image hint whose latest wave ran with the latch set and
\* dispatched no injected image action
C25_Witness ==
    /\ image_url /\ image_probe_done /\ resumed
    /\ turn_log.ran /\ turn_log.dispatched > 0 /\ turn_log.injected = 0

\* C26: whenever a turn surfaces a non-empty set of new candidates,
\* judge_candidates has been invoked in that turn on exactly those candidates
\* (before any auto-selection or pause): no turn pauses on or publishes new
\* candidates that were not arbitrated in the same turn
C26_NewCandidatesJudged ==
    (turn_log.ran /\ new_candidates # <<>>) => turn_log.judged = new_candidates

\* C27: a turn sets selected_candidate itself only when the verdict of
\* judge_candidates has a winner, its should-pause flag is false and the bias
\* rate is below the alarm; the selected candidate is then the one at the winner
\* index of the judged list and awaiting_disambiguation is cleared; for every
\* other verdict the turn sets awaiting_disambiguation and selects nothing
C27_AutoSelectRule ==
    [][(pc = "supervisor_tools" /\ turn_log'.ran) =>
         LET w == turn_log'.auto_winner
             judged == turn_log'.judged
         IN  IF judged = <<>> THEN selected_candidate' = selected_candidate
             ELSE IF w # NoneIdx
                  THEN /\ selected_candidate' = judged[w + 1]
                       /\ ~awaiting_disambiguation'
                  ELSE /\ selected_candidate' = selected_candidate
                       /\ awaiting_disambiguation']_vars

\* C30: a resume with no selection (index below zero or not below the number of
\* candidates) sets selected_candidate to none, clears awaiting_disambiguation,
\* adds the URL of every current candidate that has one to rejected_urls and
\* empties candidates, so that the next turn does not take the pause of
\* supervisor_tools again on the rejected set
C30_ResumeNone ==
    [][(pc = "__end__" /\ pc' # "__end__"
        /\ (selection' < 0 \/ selection' >= Len(candidates))) =>
         (/\ selected_candidate' = NoCandidate
          /\ ~awaiting_disambiguation'
          /\ rejected_urls' = rejected_urls
                                \cup {candidates[i].url : i \in {k \in 1..Len(candidates) :
                                                                  candidates[k].url # ""}}
          /\ candidates' = <<>>
          /\ ~((candidates' # <<>> /\ ~Truthy(selected_candidate'))
                \/ awaiting_disambiguation'))]_vars

\* the state a "none of these" resume leaves: the index was past the two candidates
\* on offer, their URLs are rejected and no candidate is left
C30_Witness ==
    /\ pc = "supervisor" /\ resumed /\ selection >= 2
    /\ candidates = <<>> /\ ~Truthy(selected_candidate) /\ ~awaiting_disambiguation
    /\ rejected_urls # {}

\* C29: every invocation (a start or a resume) reaches Stopped or AwaitingHuman
\* after at most max_researcher_iterations planning steps, provided every oracle,
\* action and evaluator call returns: no step in which every call returned leaves
\* the invocation by an error, and the invocation goes on to another dispatch only
\* while the number of planning steps is below the maximum
C29_InvocationEnds ==
    [][/\ pc' # "raised:judge_candidates"
       /\ (pc = "supervisor" /\ pc' = "supervisor_tools")
             => supervisor_iterations' < max_researcher_iterations]_vars

(***************************************************************************)
(* Properties of the candidate pipeline (specification SpecExtract)        *)
(***************************************************************************)
\* identity key of a candidate: url if present, else lowercase name
IdentityKey(c) == IF c.url # "" THEN c.url ELSE Lower(c.name)

\* C18: the candidate list a turn produces holds no two candidates with the same
\* identity key, holds the first-seen candidate of every key the turn met, and
\* deduplicating it again changes nothing.
C18_DedupFirstSeen ==
    e_pc \in {"structural", "summarised", "merged"} =>
        /\ \A i, j \in 1..Len(out_candidates) :
               i # j => IdentityKey(out_candidates[i]) # IdentityKey(out_candidates[j])
        /\ \A i \in 1..Len(seen_order) :
               (/\ IdentityKey(seen_order[i]) # ""
                /\ \A j \in 1..(i - 1) :
                      IdentityKey(seen_order[j]) # IdentityKey(seen_order[i]))
                  => seen_order[i] \in Range(out_candidates)
        /\ _dedup(out_candidates) = out_candidates

(***************************************************************************)
(* Properties of the arbitration engine (specification SpecJudge)          *)
(***************************************************************************)
VotesFor(i) == IF i \in DOMAIN votes THEN votes[i] ELSE 0

\* C8: a winner is returned only when its index has strictly more votes than
\* every other index; when two or more indices tie for the maximum, winner_index
\* is none and should_pause_for_human is true.
C8_StrictPlurality ==
    (j_pc = "done" /\ cand_list # <<>>) =>
        LET idx == 0..(Len(cand_list) - 1)
            w == j_out.winner_index
        IN  /\ w # NoneIdx =>
                 (w \in idx /\ \A i \in idx \ {w} : VotesFor(w) > VotesFor(i))
            /\ (\E i, k \in idx : /\ i # k
                                  /\ VotesFor(i) = VotesFor(k)
                                  /\ \A m \in idx : VotesFor(m) <= VotesFor(i))
                 => (w = NoneIdx /\ j_out.should_pause_for_human)

\* two candidates ended with the same positive number of votes
C8_Witness ==
    /\ j_pc = "done"
    /\ Len(cand_list) = 2
    /\ VotesFor(0) = VotesFor(1)
    /\ VotesFor(0) > 0
    /\ j_out.winner_index = NoneIdx
    /\ j_out.should_pause_for_human

\* C9: for every adjudication, the empty list included, the returned
\* should_pause_for_human equals (winner_index is none) or (confidence < pause
\* threshold) or (position_bias_rate >= bias alarm threshold).
C9_PauseDecision ==
    j_pc = "done" =>
        (j_out.should_pause_for_human
           <=> (\/ j_out.winner_index = NoneIdx
                \/ (IF j_out.conf_n = 0 THEN 0 < JUDGE_PAUSE_THRESHOLD
                    ELSE j_out.conf_sum < JUDGE_PAUSE_THRESHOLD * j_out.conf_n)
                \/ (j_out.swap_total > 0
                    /\ j_out.swap_flips * 100
                         >= JUDGE_POSITION_FLIP_ALARM * j_out.swap_total)))

\* C10: if every evaluator invocation picked the same original candidate k, then
\* position_bias_rate is 0, winner_index is k, confidence is the mean of all the
\* reported confidences, and should_pause_for_human is false whenever that
\* confidence is at least the pause threshold.
C10_Unanimous ==
    (j_pc = "done" /\ cand_list # <<>>) =>
        \A k \in 0..(Len(cand_list) - 1) :
            picks = {k} =>
                /\ j_out.swap_flips = 0
                /\ j_out.winner_index = k
                /\ j_out.conf_sum = reported.sum
                /\ j_out.conf_n = reported.n
                /\ (j_out.conf_sum >= JUDGE_PAUSE_THRESHOLD * j_out.conf_n
                      => ~j_out.should_pause_for_human)

\* every invocation, base and swapped, picked the second of two candidates, with
\* confidences whose mean reaches the threshold
C10_Witness ==
    /\ j_pc = "done"
    /\ Len(cand_list) = 2
    /\ picks = {1}
    /\ j_out.swap_total = NumModels * sc_runs
    /\ j_out.winner_index = 1
    /\ ~j_out.should_pause_for_human

\* C21: an evaluator invocation that fails (unparseable output after the one retry,
\* a raised call, or a winner index that is missing, malformed or out of range)
\* contributes no vote and no confidence, and the adjudication still completes and
\* returns a decision: judge_candidates is never left by an error of the tally
C21_FailedCallContained == j_pc # "raised"

(***************************************************************************)
(* Properties of the sanitising (specification SpecSanitize)               *)
(***************************************************************************)
\* the proposal's actions that pass the supervisor's filters (the legal ones),
\* in proposal order
LegalActions ==
    LET Legal(tc) == /\ tc.name # "think_tool"
                     /\ tc.name \in ALLOWED_TOOLS
                     /\ (tc.name # "advanced_search_and_retrieve"
                         \/ Truthy(selected_candidate))
                     /\ (tc.name \notin BLOCKED_UNTIL_SELECTION
                         \/ Truthy(selected_candidate))
    IN  SelectSeq(out_tool_calls, Legal)

\* number of occurrences of action tc in the list lst
CountIn(lst, tc) == Cardinality({k \in 1..Len(lst) : lst[k] = tc})

\* C22: when a proposal holds more legal actions than the per-turn cap leaves
\* room for, broad-search actions are kept in preference to the others: no
\* non-broad action is kept while a broad action of the same proposal is trimmed
C22_BroadKeptFirst ==
    s_pc = "sanitized" =>
        ~ \E b \in Range(LegalActions), k \in 1..Len(tool_calls) :
            /\ b.name \in broad
            /\ CountIn(tool_calls, b) < CountIn(LegalActions, b)
            /\ tool_calls[k].name # "think_tool"
            /\ tool_calls[k].name \notin broad

\* the vertical actions: google_news_search, google_hotels_search
IsVertical(tc) == tc.name \in BLOCKED_UNTIL_SELECTION

\* C24: a vertical action is dispatched if and only if selected_candidate is set:
\* it is dropped while no candidate is selected, and once one is selected it
\* survives the sanitising (checked on proposals short enough that the per-turn
\* cap trims nothing)
C24_VerticalIffSelected ==
    s_pc = "sanitized" =>
        /\ ~Truthy(selected_candidate) => SelectSeq(tool_calls, IsVertical) = <<>>
        /\ (Truthy(selected_candidate) /\ Len(out_tool_calls) <= max_tool_calls_per_turn)
              => SelectSeq(tool_calls, IsVertical) = SelectSeq(out_tool_calls, IsVertical)

====
